---- MODULE Spec2Model ----
(***************************************************************************)
(* A model of bayesflow.models: the ConditionalDistribution node graph,    *)
(* its construction (input resolution, shape/dtype inference, ancestor     *)
(* sets), seeded sampling with a one-slot cache, posterior attachment,     *)
(* elbo_term and init_q_true.                                              *)
(*                                                                         *)
(* Python's None is the empty set and a present value x is {x}.  Arrays    *)
(* are abstracted to their shapes; a sampled value is the term recording   *)
(* the node that drew it, the state of numpy's generator when it was       *)
(* drawn, and the parents' values it was computed from.  A node's name is  *)
(* taken to be unique and is represented by the node's index.              *)
(***************************************************************************)
EXTENDS Integers, Sequences, FiniteSets, TLC

VARIABLES graph, qobj, qslot, val, mark, vseed, rng, last

vars == <<graph, qobj, qslot, val, mark, vseed, rng, last>>

\* ---------------------------------------------------------------- bounds
MaxDim == 2
MaxSeed == 1

\* ------------------------------------------------------------- utilities
None == {}
Some(x) == {x}
The(o) == CHOOSE x \in o : TRUE

Dims == 1..MaxDim
Scalar == <<>>
VecShapes == {<<n>> : n \in Dims}
MatShapes == {<<n, k>> : n \in Dims, k \in Dims}
Shapes == {Scalar} \cup VecShapes \cup MatShapes
Dtypes == {"float32", "float64"}

Range(f) == {f[x] : x \in DOMAIN f}

\* ----------------------------------------------------- the node classes
Classes == {"Flat", "NGMP", "NCS", "NLF", "GMM", "MGN"}

inputs(cls) ==
    CASE cls = "Flat" -> <<>>
      [] cls = "NGMP" -> <<"A", "B", "std">>
      [] cls = "NCS" -> <<"A", "std">>
      [] cls = "NLF" -> <<"B", "G", "std">>
      [] cls = "GMM" -> <<"weights", "centers", "std">>
      [] cls = "MGN" -> <<"A", "std">>

\* A keyword argument: an existing node, None, or a raw value (an array of
\* some shape and dtype).
NodeArg(i) == [t |-> "node", id |-> i, shape |-> Scalar, dtype |-> "float32"]
NoneArg == [t |-> "none", id |-> 0, shape |-> Scalar, dtype |-> "float32"]
RawArg(s, d) == [t |-> "raw", id |-> 0, shape |-> s, dtype |-> d]

\* ObservedQDistribution(value): a posterior pinned to a value of that shape.
ObservedQ(shape) == [kind |-> "Observed", output_shape |-> shape, init |-> None]

\* A _compute_shape without the assertions on the inner dimensions.
_compute_shape_Unchecked(cls, sh) ==
    LET have(S) == S \subseteq DOMAIN sh
    IN CASE cls = "NGMP" ->
              IF have({"A", "B", "std"}) /\ Len(sh["A"]) = 2 /\ Len(sh["B"]) = 2
              THEN Some(<<sh["A"][1], sh["B"][1]>>) ELSE None
         [] cls = "NLF" ->
              IF have({"B", "G", "std"}) /\ Len(sh["B"]) = 2 /\ Len(sh["G"]) = 2
              THEN Some(<<sh["B"][1], sh["G"][2]>>) ELSE None
         [] cls \in {"NCS", "MGN"} ->
              IF have({"A", "std"}) THEN Some(sh["A"]) ELSE None
         [] OTHER -> None

\* _compute_shape of each class, given the shapes of the resolved inputs
\* keyed by input name; None when it raises (a missing argument, a shape
\* that does not unpack into two numbers, a failed assertion).
_compute_shape(cls, sh) ==
    LET have(S) == S \subseteq DOMAIN sh
    IN CASE cls = "NGMP" ->
              IF have({"A", "B", "std"}) /\ Len(sh["A"]) = 2 /\ Len(sh["B"]) = 2
                 /\ sh["A"][2] = sh["B"][2]
              THEN Some(<<sh["A"][1], sh["B"][1]>>) ELSE None
         [] cls = "NLF" ->
              IF have({"B", "G", "std"}) /\ Len(sh["B"]) = 2 /\ Len(sh["G"]) = 2
                 /\ sh["B"][2] = sh["G"][1]
              THEN Some(<<sh["B"][1], sh["G"][2]>>) ELSE None
         [] cls \in {"NCS", "MGN"} ->
              IF have({"A", "std"}) THEN Some(sh["A"]) ELSE None
         [] cls = "GMM" -> None
         [] OTHER -> None

\* _compute_dtype of each class; None when it raises.
_compute_dtype(cls, dt) ==
    LET have(S) == S \subseteq DOMAIN dt
    IN CASE cls = "NGMP" ->
              IF have({"A", "B", "std"}) /\ dt["A"] = dt["B"] /\ dt["A"] = dt["std"]
              THEN Some(dt["A"]) ELSE None
         [] cls = "NLF" ->
              IF have({"B", "G", "std"}) /\ dt["G"] = dt["std"]
              THEN Some(dt["G"]) ELSE None
         [] cls \in {"NCS", "MGN"} ->
              IF have({"A", "std"}) /\ dt["A"] = dt["std"]
              THEN Some(dt["A"]) ELSE None
         [] cls = "GMM" ->
              IF have({"weights", "centers", "std"}) /\ dt["centers"] = dt["std"]
              THEN Some(dt["centers"]) ELSE None
         [] OTHER -> None

\* The attribute each subclass reads off its first matrix argument after
\* the base constructor returns: A.output_shape[1], B.output_shape[1],
\* centers.output_shape[0].  The argument itself is read, not the node it
\* was resolved to: None when the read raises.
KArg(cls) ==
    CASE cls = "NGMP" -> [name |-> "A", idx |-> 2]
      [] cls = "NLF" -> [name |-> "B", idx |-> 2]
      [] cls = "GMM" -> [name |-> "centers", idx |-> 1]

SubclassInit(g, cls, kw) ==
    IF cls \notin {"NGMP", "NLF", "GMM"} THEN Some(0)
    ELSE LET a == kw[KArg(cls).name]
         IN IF a.t = "node" /\ Len(g[a.id].output_shape) >= KArg(cls).idx
            THEN Some(g[a.id].output_shape[KArg(cls).idx])
            ELSE None

\* FlatDistribution(value, fixed, name): a node without inputs whose
\* output_shape is the value's shape.
FlatNode(id, shape, dtype) ==
    [cls |-> "Flat", name |-> id, msf |-> None, input_nodes |-> <<>>,
     order |-> <<>>, output_shape |-> shape, dtype |-> dtype,
     ancestors |-> {id}, K |-> 0, inferred |-> FALSE]

\* Ancestors that stop at the parents.
Ancestors_ParentsOnly(g, id, ins) == {id} \cup {ins[nm] : nm \in DOMAIN ins}

\* The ancestor set of a node being constructed: itself and the ancestors
\* of every input node.
Ancestors(g, id, ins) ==
    {id} \cup UNION {g[ins[nm]].ancestors : nm \in DOMAIN ins}

\* ConditionalDistribution.__init__ followed by the subclass's own
\* constructor body.  kw maps keyword names to arguments, os and dt are the
\* optional output_shape and dtype, ord the iteration order of the
\* input_nodes dict.  The result is the graph with the new constants and
\* the node appended, or ok = FALSE when the constructor raises.
Construct(g, cls, kw, os, dt, msf, ord) ==
    LET ins == inputs(cls)
        present == \A i \in 1..Len(ins) : ins[i] \in DOMAIN kw
        raws == SelectSeq(ins, LAMBDA nm : kw[nm].t = "raw")
        rawIdx(nm) == CHOOSE i \in 1..Len(raws) : raws[i] = nm
        consts == [i \in 1..Len(raws) |->
                     FlatNode(Len(g) + i, kw[raws[i]].shape, kw[raws[i]].dtype)]
        g1 == g \o consts
        id == Len(g1) + 1
        resolved == {ins[i] : i \in {j \in 1..Len(ins) : kw[ins[j]].t # "none"}}
        input_nodes == [nm \in resolved |->
                          IF kw[nm].t = "node" THEN kw[nm].id
                          ELSE Len(g) + rawIdx(nm)]
        shape == IF os # None THEN os
                 ELSE _compute_shape(cls, [nm \in resolved |->
                                              g1[input_nodes[nm]].output_shape])
        dtype == IF dt # None THEN dt
                 ELSE _compute_dtype(cls, [nm \in resolved |->
                                              g1[input_nodes[nm]].dtype])
        k == SubclassInit(g, cls, kw)
        fail == [ok |-> FALSE, graph |-> g, nconst |-> 0]
    IN IF ~present THEN fail
       ELSE IF shape = None \/ dtype = None \/ k = None THEN fail
       ELSE [ok |-> TRUE,
             graph |-> Append(g1,
                 [cls |-> cls, name |-> id, msf |-> msf,
                  input_nodes |-> input_nodes, order |-> ord,
                  output_shape |-> The(shape), dtype |-> The(dtype),
                  ancestors |-> Ancestors(g1, id, input_nodes),
                  K |-> The(k), inferred |-> (os = None)]),
             nconst |-> Len(raws)]

\* --------------------------------------------------------- construction
\* The values a caller passes as constants: a Python number (wrapped as a
\* float32 scalar) or a float32 matrix.
RawArgs == {RawArg(Scalar, "float32"), RawArg(<<MaxDim, 1>>, "float32")}

Args(g) == {NodeArg(i) : i \in 1..Len(g)} \cup {NoneArg} \cup RawArgs

\* The keyword dictionaries a caller passes: every declared input given, or
\* one of them left out.
Keywords(g, cls) ==
    LET names == Range(inputs(cls))
    IN [names -> Args(g)]
       \cup {[nm \in names \ {miss} |-> NoneArg] : miss \in names}

Nones(k) == [i \in 1..k |-> None]

NoRng == [seed |-> None, draws |-> 0]

\* The nodes and posteriors of a program: m.graph the nodes in order of
\* construction, m.qobj the posterior objects, m.qslot each node's
\* _q_distribution (an index into m.qobj, or None).
Empty == [graph |-> <<>>, qobj |-> <<>>, qslot |-> <<>>, ok |-> TRUE]

\* FlatDistribution(value, fixed): a flat node; a fixed one has an
\* ObservedQDistribution of its value attached by its constructor.
AddFlat(m, shape, dtype, fixed) ==
    [graph |-> Append(m.graph, FlatNode(Len(m.graph) + 1, shape, dtype)),
     qobj |-> IF fixed THEN Append(m.qobj, ObservedQ(shape)) ELSE m.qobj,
     qslot |-> Append(m.qslot, IF fixed THEN Some(Len(m.qobj) + 1) ELSE None),
     ok |-> TRUE]

\* A node of a stochastic class.  A constant created for a raw argument is
\* a fixed FlatDistribution.  A constructor that raises leaves every node
\* as it was.
AddNode(m, cls, kw, os, dt, msf, ord) ==
    LET r == Construct(m.graph, cls, kw, os, dt, msf, ord)
        n == Len(r.graph) - Len(m.graph)
    IN [graph |-> r.graph,
        qobj |-> m.qobj \o [i \in 1..r.nconst |->
                    ObservedQ(r.graph[Len(m.graph) + i].output_shape)],
        qslot |-> m.qslot \o [i \in 1..n |->
                    IF i <= r.nconst THEN Some(Len(m.qobj) + i) ELSE None],
        ok |-> r.ok]

\* The program state after a constructor call made it m; the sample caches
\* of the new nodes are empty.
Built(m) ==
    LET n == Len(m.graph) - Len(graph)
    IN /\ graph' = m.graph
       /\ qobj' = m.qobj
       /\ qslot' = m.qslot
       /\ val' = val \o Nones(n)
       /\ mark' = mark \o Nones(n)
       /\ vseed' = vseed \o Nones(n)
       /\ UNCHANGED rng

Model == [graph |-> graph, qobj |-> qobj, qslot |-> qslot, ok |-> TRUE]

\* The caller constructs a flat node.
NewFlat(shape, dtype, fixed) ==
    /\ Built(AddFlat(Model, shape, dtype, fixed))
    /\ last' = [op |-> "new", cls |-> "Flat", kw |-> <<>>, os |-> Some(shape),
                dt |-> Some(dtype), ok |-> TRUE, id |-> Len(graph) + 1]

\* The caller constructs a node of a stochastic class.
NewNode(cls, kw, os, dt, msf, ord) ==
    /\ LET m == AddNode(Model, cls, kw, os, dt, msf, ord)
       IN /\ Built(m)
          /\ last' = [op |-> "new", cls |-> cls, kw |-> kw, os |-> os, dt |-> dt,
                      ok |-> m.ok, id |-> IF m.ok THEN Len(m.graph) ELSE 0]

\* The arrays a caller wraps in a FlatDistribution (fixed, or left free
\* for a posterior to be attached), and the optional output_shape and
\* dtype a caller passes.
FlatValues ==
    {[shape |-> s, dtype |-> "float32", fixed |-> TRUE] : s \in MatShapes}
    \cup {[shape |-> <<1, 1>>, dtype |-> "float64", fixed |-> TRUE],
          [shape |-> <<1, 1>>, dtype |-> "float32", fixed |-> FALSE]}
Explicit ==
    {[os |-> None, dt |-> None],
     [os |-> Some(<<MaxDim, 1>>), dt |-> None],
     [os |-> Some(<<MaxDim, 1>>), dt |-> Some("float32")]}

\* The order in which a dict of these keys is iterated.
DeclaredOrder(cls, S) == SelectSeq(inputs(cls), LAMBDA nm : nm \in S)

\* -------------------------------------------------------------- sampling
Max(a, b) == IF a >= b THEN a ELSE b

\* numpy's broadcasting of two shapes, aligned at their last dimension;
\* None when the shapes are incompatible and the operation raises.
Pad(s, n) == [i \in 1..n |-> IF i <= n - Len(s) THEN 1 ELSE s[i - (n - Len(s))]]

Broadcast(a, b) ==
    LET n == Max(Len(a), Len(b))
        pa == Pad(a, n)
        pb == Pad(b, n)
    IN IF \A i \in 1..n : pa[i] = pb[i] \/ pa[i] = 1 \/ pb[i] = 1
       THEN Some([i \in 1..n |-> Max(pa[i], pb[i])])
       ELSE None

\* The shape of X.T.
Transpose(s) == [i \in 1..Len(s) |-> s[Len(s) + 1 - i]]

\* The shape of np.dot(a, b) for arrays of at most two dimensions; None
\* when the inner dimensions differ and np.dot raises.
Dot(a, b) ==
    CASE Len(a) = 0 -> Some(b)
      [] Len(a) > 0 /\ Len(b) = 0 -> Some(a)
      [] Len(a) = 1 /\ Len(b) = 1 -> IF a[1] = b[1] THEN Some(Scalar) ELSE None
      [] Len(a) = 2 /\ Len(b) = 1 -> IF a[2] = b[1] THEN Some(<<a[1]>>) ELSE None
      [] Len(a) = 1 /\ Len(b) = 2 -> IF a[1] = b[1] THEN Some(<<b[2]>>) ELSE None
      [] OTHER -> IF a[2] = b[1] THEN Some(<<a[1], b[2]>>) ELSE None

\* The shape of np.cumsum(a, axis=0): a number is summed as a vector of one.
CumSum(a) == IF Len(a) = 0 THEN <<1>> ELSE a

\* Broadcasting with an operand that may already have failed.
Plus(oa, ob) == IF oa = None \/ ob = None THEN None ELSE Broadcast(The(oa), The(ob))

\* A number modulo 2^32 is a pair <<high, low>> of 16-bit halves, so that
\* the arithmetic stays within the checker's integers.
Limb == 65536

\* name.__hash__() modulo 2^32: some fixed number for each name.  The first
\* name hashes to -1, so that salting wraps around.
Hash(name) ==
    <<(Limb - 1 - (name - 1) * 7919) % Limb, (Limb - name * name) % Limb>>

\* The node-local seed, (seed + salt) % 2^32: the global seed salted with
\* the hash of the name.
LocalSeed(seed, name) ==
    LET lo == (seed % Limb) + Hash(name)[2]
        hi == (seed \div Limb) + Hash(name)[1] + (lo \div Limb)
    IN <<hi % Limb, lo % Limb>>

\* np.random.seed(local_seed)
SeedRng(r, ls) == [seed |-> Some(ls), draws |-> 0]

\* The largest index np.random.choice(np.arange(k), ...) returns from a
\* generator in state r: some fixed function of the seed it was given.
Choice(r, k) == IF r.seed = None THEN 0 ELSE The(r.seed)[2] % k

\* The value a _sample returns: the node, the generator's state when it
\* began to draw, the input values and the shape of the array.
Value(nd, r, iv, shape) ==
    [node |-> nd.name, rs |-> r.seed, rd |-> r.draws,
     ins |-> [nm \in DOMAIN iv |-> The(iv[nm])], shape |-> shape]

\* The _sample of each class, called with the input values iv (by name)
\* while the generator is in state r.  ok = FALSE when it raises: an input
\* the signature requires is not in input_nodes, an input value is None,
\* shapes that do not broadcast or multiply, output_shape not unpacking
\* into (N, D), weights that are not K probabilities, a drawn cluster index
\* beyond the centers.
_sample(nd, r, iv) ==
    LET cls == nd.cls
        sh(nm) == The(iv[nm]).shape
        called == DOMAIN iv = Range(inputs(cls))
        given == called /\ \A nm \in DOMAIN iv : iv[nm] # None
        r1 == [r EXCEPT !.draws = r.draws + 1]
        r2 == [r EXCEPT !.draws = r.draws + 2]
        noise == IF given THEN Broadcast(nd.output_shape, sh("std")) ELSE None
        unpack == Len(nd.output_shape) = 2
        probs == sh("weights") = <<nd.K>> /\ The(iv["weights"]).rs = None
        chosen == noise # None /\ unpack /\ probs
        indexed == chosen /\ Len(sh("centers")) >= 1
                   /\ Choice(r1, nd.K) < sh("centers")[1]
        mean == CASE cls = "NGMP" -> Dot(sh("A"), Transpose(sh("B")))
                  [] cls = "NCS" -> Some(CumSum(sh("A")))
                  [] cls = "NLF" -> Dot(sh("B"), sh("G"))
                  [] cls = "MGN" -> Some(sh("A"))
                  [] cls = "GMM" ->
                       IF indexed
                       THEN Some(<<nd.output_shape[1]>> \o Tail(sh("centers")))
                       ELSE None
        out == IF noise = None THEN None ELSE Plus(mean, noise)
        after == IF cls = "GMM" /\ chosen THEN r2 ELSE r1
    IN IF cls = "Flat"
       THEN [ok |-> TRUE, rng |-> r,
             value |-> Value(nd, NoRng, <<>>, nd.output_shape)]
       ELSE IF ~called THEN [ok |-> FALSE, rng |-> r]
       ELSE IF out = None THEN [ok |-> FALSE, rng |-> after]
       ELSE [ok |-> TRUE, rng |-> after, value |-> Value(nd, r, iv, The(out))]

\* A cache that never hits.
CacheHit_Never(seed, marker) == FALSE

\* The test of the one-slot cache: nothing is recomputed when the seed is
\* the one the cached value was drawn for.
CacheHit(seed, marker) == marker = Some(seed)

\* What a sample() call works on: the caches of all nodes, the generator,
\* and, for the observer, the _sample calls made so far (log), whether an
\* exception is propagating (err) and the value returned (ret).
SampleState ==
    [val |-> val, mark |-> mark, vseed |-> vseed, rng |-> rng,
     log |-> <<>>, err |-> FALSE, ret |-> None]

\* A sample() that does not record the seed it sampled with.
OwnSample_Unmarked(n, seed, st, iv) ==
    LET r0 == [seed |-> Some(LocalSeed(seed, graph[n].name)), draws |-> 0]
        res == _sample(graph[n], r0, iv)
        ev == [n |-> n, rng |-> r0, ok |-> res.ok]
        st1 == [st EXCEPT !.rng = res.rng, !.log = Append(st.log, ev)]
    IN IF res.ok
       THEN [st1 EXCEPT !.val[n] = Some(res.value), !.vseed[n] = Some(seed),
                        !.ret = Some(res.value)]
       ELSE [st1 EXCEPT !.err = TRUE, !.ret = None]

\* The node's own part of sample(): salt, seed the generator, record the
\* seed, call _sample and cache what it returns.  The seed marker is
\* assigned before _sample is called, so it stays assigned when _sample
\* raises.
OwnSample(n, seed, st, iv) ==
    LET r0 == SeedRng(st.rng, LocalSeed(seed, graph[n].name))
        res == _sample(graph[n], r0, iv)
        ev == [n |-> n, rng |-> r0, ok |-> res.ok]
        st1 == [st EXCEPT !.mark[n] = Some(seed), !.rng = res.rng,
                          !.log = Append(st.log, ev)]
    IN IF res.ok
       THEN [st1 EXCEPT !.val[n] = Some(res.value), !.vseed[n] = Some(seed),
                        !.ret = Some(res.value)]
       ELSE [st1 EXCEPT !.err = TRUE, !.ret = None]

RECURSIVE SampleRec(_, _, _)
RECURSIVE SampleInputs(_, _, _, _)

\* input_samples: sample() of every input node with the same seed, in the
\* order of the input_nodes dict, from the i-th on.  An exception in one
\* ends the comprehension.
SampleInputs(n, seed, st, i) ==
    LET ord == graph[n].order
    IN IF i > Len(ord) THEN [st |-> st, iv |-> <<>>]
       ELSE LET s1 == SampleRec(graph[n].input_nodes[ord[i]], seed, st)
            IN IF s1.err THEN [st |-> s1, iv |-> <<>>]
               ELSE LET rest == SampleInputs(n, seed, s1, i + 1)
                    IN [st |-> rest.st, iv |-> (ord[i] :> s1.ret) @@ rest.iv]

\* sample(seed) on node n.
SampleRec(n, seed, st) ==
    IF CacheHit(seed, st.mark[n]) THEN [st EXCEPT !.ret = st.val[n]]
    ELSE LET s1 == SampleInputs(n, seed, st, 1)
         IN IF s1.st.err THEN s1.st
            ELSE OwnSample(n, seed, s1.st, s1.iv)

Seeds == 0..MaxSeed

\* The caller samples node n with a seed.
Sample(n, seed) ==
    LET st == SampleRec(n, seed, SampleState)
    IN /\ val' = st.val
       /\ mark' = st.mark
       /\ vseed' = st.vseed
       /\ rng' = st.rng
       /\ last' = [op |-> "sample", n |-> n, seed |-> seed,
                   hit |-> CacheHit(seed, mark[n]), ok |-> ~st.err,
                   ret |-> st.ret, log |-> st.log]
       /\ UNCHANGED <<graph, qobj, qslot>>

Sampling == \E n \in 1..Len(graph), seed \in Seeds : Sample(n, seed)

\* The value sample(seed) on node n should return whatever was sampled
\* before: every node's _sample on freshly drawn inputs, from a generator
\* just seeded with its own local seed.  None when some _sample raises.
RECURSIVE Ideal(_, _)
Ideal(n, seed) ==
    LET nd == graph[n]
        iv == [nm \in DOMAIN nd.input_nodes |-> Ideal(nd.input_nodes[nm], seed)]
        res == _sample(nd, SeedRng(NoRng, LocalSeed(seed, nd.name)), iv)
    IN IF res.ok THEN Some(res.value) ELSE None

\* ------------------------------------------------------------ posteriors
\* A posterior object the caller makes: a GaussianQDistribution, which
\* supports initialize_to_value, an ObservedQDistribution, or a posterior
\* of some other family, which does not.
NewQ(kind, shape) == [kind |-> kind, output_shape |-> shape, init |-> None]

\* What the posterior operations work on: the posterior objects, each
\* node's slot, and, for the observer, whether an exception is propagating
\* (err), whether default_q was called (defq), the initialize_to_value
\* calls made (log) and the posterior returned (ret).
QState ==
    [qobj |-> qobj, qslot |-> qslot, err |-> FALSE, defq |-> FALSE,
     log |-> <<>>, ret |-> None]

\* default_q(): no class defines one, so the base method raises.
default_q(nd) == None

\* An attach_q that replaces the posterior attached before.
attach_q_Replace(n, q, st) ==
    IF graph[n].output_shape # st.qobj[q].output_shape
    THEN [st EXCEPT !.err = TRUE]
    ELSE [st EXCEPT !.qslot[n] = Some(q)]

\* attach_q(q) on node n, q an index into st.qobj: raises when a posterior
\* is attached already, and when the shapes differ.
attach_q(n, q, st) ==
    IF st.qslot[n] # None THEN [st EXCEPT !.err = TRUE]
    ELSE IF graph[n].output_shape # st.qobj[q].output_shape
         THEN [st EXCEPT !.err = TRUE]
         ELSE [st EXCEPT !.qslot[n] = Some(q)]

\* q_distribution() on node n: attaches the default posterior when none is
\* attached, and returns the attached one.
q_distribution(n, st) ==
    IF st.qslot[n] = None
    THEN LET d == default_q(graph[n])
             s0 == [st EXCEPT !.defq = TRUE]
         IN IF d = None THEN [s0 EXCEPT !.err = TRUE]
            ELSE LET s1 == attach_q(n, Len(st.qobj) + 1,
                                    [s0 EXCEPT !.qobj = Append(st.qobj, The(d))])
                 IN IF s1.err THEN [s0 EXCEPT !.err = TRUE]
                    ELSE [s1 EXCEPT !.ret = s1.qslot[n]]
    ELSE [st EXCEPT !.ret = st.qslot[n]]

\* The caller makes a posterior q and attaches it to node n.
AttachQ(n, q) ==
    LET st == attach_q(n, Len(qobj) + 1, [QState EXCEPT !.qobj = Append(qobj, q)])
    IN /\ qslot' = st.qslot
       /\ qobj' = IF st.err THEN qobj ELSE st.qobj
       /\ last' = [op |-> "attach_q", n |-> n, ok |-> ~st.err, q |-> q]
       /\ UNCHANGED <<graph, val, mark, vseed, rng>>

\* observe(observed_val): attaches an ObservedQDistribution of the value.
Observe(n, shape) ==
    LET st == attach_q(n, Len(qobj) + 1,
                       [QState EXCEPT !.qobj = Append(qobj, ObservedQ(shape))])
    IN /\ qslot' = st.qslot
       /\ qobj' = IF st.err THEN qobj ELSE st.qobj
       /\ last' = [op |-> "observe", n |-> n, ok |-> ~st.err, shape |-> shape]
       /\ UNCHANGED <<graph, val, mark, vseed, rng>>

\* The caller asks node n for its posterior.
QDistribution(n) ==
    LET st == q_distribution(n, QState)
    IN /\ qslot' = st.qslot
       /\ qobj' = st.qobj
       /\ last' = [op |-> "q_distribution", n |-> n, ok |-> ~st.err,
                   ret |-> st.ret, defq |-> st.defq]
       /\ UNCHANGED <<graph, val, mark, vseed, rng>>

\* ------------------------------------------------------------- elbo_term
\* A number a + ln(x), a an integer and x a positive integer: the terms of
\* the bound are integers here, and the symmetry corrections are logarithms.
Num(a, x) == [int |-> a, exp |-> x]

RECURSIVE Pow(_, _)
Pow(x, k) == IF k = 0 THEN 1 ELSE x * Pow(x, k - 1)

RECURSIVE Fact(_)
Fact(k) == IF k <= 1 THEN 1 ELSE k * Fact(k - 1)

\* c * (a + ln x) = c * a + ln(x^c)
Times(v, c) == Num(v.int * c, Pow(v.exp, c))

\* (a + ln x) + ln y = a + ln(x * y)
PlusLog(v, y) == Num(v.int, v.exp * y)

\* A scaling that forgets the entropy.
BaseElbo_LpOnly(msf, lp, ent) ==
    IF msf # None
    THEN [lp |-> Times(lp, The(msf)), ent |-> ent]
    ELSE [lp |-> lp, ent |-> ent]

\* ConditionalDistribution.elbo_term once the posteriors are resolved: lp
\* is what _expected_logp returned and ent what q.entropy() returned.
BaseElbo(msf, lp, ent) ==
    IF msf # None
    THEN [lp |-> Times(lp, The(msf)), ent |-> Times(ent, The(msf))]
    ELSE [lp |-> lp, ent |-> ent]

\* The symmetry correction the subclasses add to the expected log
\* probability, as the number whose logarithm it is: K! * 2^K for the
\* matrix product (ln K! + K ln 2), K! for latent features and clustering.
Symmetry(cls, K) ==
    CASE cls = "NGMP" -> Fact(K) * Pow(2, K)
      [] cls \in {"NLF", "GMM"} -> Fact(K)
      [] OTHER -> 1

\* elbo_term() of each class with its default arguments
\* (symmetry_correction_hack = True).
elbo_term(cls, K, msf, lp, ent) ==
    LET b == BaseElbo(msf, lp, ent)
    IN [lp |-> PlusLog(b.lp, Symmetry(cls, K)), ent |-> b.ent]

RECURSIVE InputQs(_, _, _)
\* input_qs: q_distribution() of every input node, in the order of the
\* input_nodes dict, from the i-th on.
InputQs(n, st, i) ==
    LET ord == graph[n].order
    IN IF i > Len(ord) \/ st.err THEN st
       ELSE InputQs(n, q_distribution(graph[n].input_nodes[ord[i]], st), i + 1)

\* The caller asks node n for its term of the bound.  _expected_logp raises
\* when an input its signature requires is not in input_nodes.
ElboTerm(n, lp, ent) ==
    LET nd == graph[n]
        s1 == InputQs(n, QState, 1)
        s2 == IF s1.err THEN s1 ELSE q_distribution(n, s1)
        called == DOMAIN nd.input_nodes = Range(inputs(nd.cls))
        ok == ~s2.err /\ called
    IN /\ qslot' = s2.qslot
       /\ qobj' = s2.qobj
       /\ last' = [op |-> "elbo_term", n |-> n, ok |-> ok, lp |-> lp, ent |-> ent,
                   out |-> IF ok THEN elbo_term(nd.cls, nd.K, nd.msf, lp, ent)
                           ELSE [lp |-> lp, ent |-> ent]]
       /\ UNCHANGED <<graph, val, mark, vseed, rng>>

\* ----------------------------------------------------------- init_q_true
\* An init_q_true without the try: a posterior that cannot be initialized
\* aborts the call.
OwnInit_Abort(n, st) ==
    LET s1 == q_distribution(n, st)
        q == The(s1.ret)
        kind == s1.qobj[q].kind
        ev == [n |-> n, q |-> q, v |-> val[n], ok |-> kind = "Gaussian"]
    IN IF s1.err THEN s1
       ELSE IF kind = "Observed" THEN s1
       ELSE IF kind = "Gaussian"
            THEN [s1 EXCEPT !.qobj[q].init = Some(val[n]),
                            !.log = Append(s1.log, ev)]
            ELSE [s1 EXCEPT !.log = Append(s1.log, ev), !.err = TRUE]

\* The node's own part of init_q_true(): fetch the posterior (an error here
\* propagates) and, unless it is observed, try to initialize it to the
\* cached sample; a posterior that cannot be initialized raises, which is
\* caught and reported.
OwnInit(n, st) ==
    LET s1 == q_distribution(n, st)
        q == The(s1.ret)
        kind == s1.qobj[q].kind
        ev == [n |-> n, q |-> q, v |-> val[n], ok |-> kind = "Gaussian"]
    IN IF s1.err THEN s1
       ELSE IF kind = "Observed" THEN s1
       ELSE IF kind = "Gaussian"
            THEN [s1 EXCEPT !.qobj[q].init = Some(val[n]),
                            !.log = Append(s1.log, ev)]
            ELSE [s1 EXCEPT !.log = Append(s1.log, ev)]

RECURSIVE InitRec(_, _)
RECURSIVE InitInputs(_, _, _)

\* init_q_true() of every input node, in the order of the input_nodes
\* dict, from the i-th on.
InitInputs(n, st, i) ==
    LET ord == graph[n].order
    IN IF i > Len(ord) \/ st.err THEN st
       ELSE InitInputs(n, InitRec(graph[n].input_nodes[ord[i]], st), i + 1)

\* init_q_true() on node n.
InitRec(n, st) ==
    LET s1 == InitInputs(n, st, 1)
    IN IF s1.err THEN s1 ELSE OwnInit(n, s1)

\* The caller initializes the posteriors of node n and of its ancestors.
InitQTrue(n) ==
    LET st == InitRec(n, QState)
    IN /\ qslot' = st.qslot
       /\ qobj' = st.qobj
       /\ last' = [op |-> "init_q_true", n |-> n, ok |-> ~st.err, log |-> st.log]
       /\ UNCHANGED <<graph, val, mark, vseed, rng>>

QKinds == {"Gaussian", "Observed", "Other"}
QShapes == {<<2, 1>>, <<2, 2>>}
TermPairs == {<<Num(-3, 1), Num(5, 1)>>, <<Num(5, 1), Num(0, 1)>>}

Posteriors ==
    \/ \E n \in 1..Len(graph), k \in QKinds, s \in QShapes : AttachQ(n, NewQ(k, s))
    \/ \E n \in 1..Len(graph), s \in QShapes : Observe(n, s)
    \/ \E n \in 1..Len(graph) : QDistribution(n)

Inference ==
    \/ \E n \in 1..Len(graph), t \in TermPairs : ElboTerm(n, t[1], t[2])
    \/ \E n \in 1..Len(graph) : InitQTrue(n)

\* sample() with its default seed.
Forward == \E n \in 1..Len(graph) : Sample(n, 0)

\* ------------------------------------------------------- example models
\* A flat matrix X, Y = NoisyCumulativeSum(X) and
\* W = NoisyGaussianMatrixProduct(Y, X): X reaches W along two paths.  The
\* dict of W's inputs is iterated in the order ord.
Diamond(ord) ==
    LET m1 == AddFlat(Empty, <<2, 1>>, "float32", TRUE)
        m2 == AddNode(m1, "NCS", [A |-> NodeArg(1), std |-> NodeArg(1)],
                      None, None, None, <<"A", "std">>)
    IN AddNode(m2, "NGMP",
               [A |-> NodeArg(2), B |-> NodeArg(1), std |-> NodeArg(1)],
               None, None, Some(2), ord)

\* A matrix product whose output_shape is given although the inner
\* dimensions of its factors differ, and a node that depends on it.
Mismatched ==
    LET m1 == AddFlat(Empty, <<2, 1>>, "float32", TRUE)
        m2 == AddFlat(m1, <<1, 2>>, "float32", FALSE)
        m3 == AddNode(m2, "NGMP",
                      [A |-> NodeArg(1), B |-> NodeArg(2), std |-> NodeArg(1)],
                      Some(<<2, 1>>), None, None, <<"A", "B", "std">>)
    IN AddNode(m3, "MGN", [A |-> NodeArg(3), std |-> NodeArg(1)],
               None, None, None, <<"std", "A">>)

\* A mixture whose centers are drawn by a node declared as a vector of two
\* that yields one row of two, and a node that depends on the mixture.
Mixture ==
    LET m1 == AddFlat(Empty, <<1, 2>>, "float32", TRUE)
        m2 == AddNode(m1, "NCS", [A |-> NodeArg(1), std |-> NodeArg(1)],
                      Some(<<2>>), None, None, <<"A", "std">>)
        m3 == AddFlat(m2, <<2>>, "float32", TRUE)
        m4 == AddNode(m3, "GMM",
                      [weights |-> NodeArg(3), centers |-> NodeArg(2),
                       std |-> NodeArg(1)],
                      Some(<<1, 2>>), None, Some(2), <<"weights", "centers", "std">>)
    IN AddNode(m4, "MGN", [A |-> NodeArg(4), std |-> NodeArg(1)],
               None, None, None, <<"A", "std">>)

\* Latent features: B of two features, G their values.
Latent ==
    LET m1 == AddFlat(Empty, <<1, 2>>, "float32", TRUE)
        m2 == AddFlat(m1, <<2, 1>>, "float32", FALSE)
    IN AddNode(m2, "NLF",
               [B |-> NodeArg(1), G |-> NodeArg(2), std |-> NodeArg(2)],
               None, None, Some(2), <<"G", "B", "std">>)

\* A mixture of two clusters with fixed weights, a constant as its noise.
Clusters ==
    LET m1 == AddFlat(Empty, <<2>>, "float32", TRUE)
        m2 == AddFlat(m1, <<2, 1>>, "float32", FALSE)
    IN AddNode(m2, "GMM",
               [weights |-> NodeArg(1), centers |-> NodeArg(2),
                std |-> RawArg(Scalar, "float32")],
               Some(<<2, 1>>), None, Some(2), <<"std", "weights", "centers">>)

\* X -> Y -> W: a flat X reaches W = NoisyGaussianMatrixProduct(Y, Y) only
\* through Y = NoisyCumulativeSum(X).
Chain ==
    LET m1 == AddFlat(Empty, <<2, 1>>, "float32", TRUE)
        m2 == AddNode(m1, "NCS", [A |-> NodeArg(1), std |-> NodeArg(1)],
                      None, None, Some(2), <<"A", "std">>)
    IN AddNode(m2, "NGMP",
               [A |-> NodeArg(2), B |-> NodeArg(2), std |-> NodeArg(2)],
               None, None, Some(2), <<"std", "A", "B">>)

SamplingExamples ==
    {Diamond(<<"A", "B", "std">>), Diamond(<<"std", "B", "A">>), Mismatched, Mixture}

InferenceExamples == {Chain, Latent, Clusters}

\* A program that has built the model m and has not sampled yet.
Loaded(m) ==
    /\ graph = m.graph
    /\ qobj = m.qobj
    /\ qslot = m.qslot
    /\ val = Nones(Len(m.graph))
    /\ mark = Nones(Len(m.graph))
    /\ vseed = Nones(Len(m.graph))
    /\ rng = NoRng
    /\ last = [op |-> "init", ok |-> TRUE]

InitSampling == \E m \in SamplingExamples : m.ok /\ Loaded(m)

\* Sampling alone, with every seed, on the sampling examples.
SpecSample == InitSampling /\ [][Sampling]_vars

InitInference == \E m \in InferenceExamples : m.ok /\ Loaded(m)

Fit == Posteriors \/ Inference

\* The posterior and inference operations, on the inference examples.
SpecPosterior == InitInference /\ [][Fit]_vars

RECURSIVE Fitted(_, _, _)
\* The caller attaches a posterior of the family ks[i] and of the node's own
\* shape to every node i that has none, from the i-th node on.
Fitted(ks, st, i) ==
    IF i > Len(graph) THEN st
    ELSE IF ks[i] = "none" \/ st.qslot[i] # None THEN Fitted(ks, st, i + 1)
    ELSE Fitted(ks,
             attach_q(i, Len(st.qobj) + 1,
                      [st EXCEPT !.qobj = Append(st.qobj,
                                                 NewQ(ks[i], graph[i].output_shape))]),
             i + 1)

\* A program that has built an inference example and attached posteriors
\* to some of its nodes.
InitFitted ==
    \E m \in InferenceExamples :
        /\ m.ok
        /\ graph = m.graph
        /\ \E ks \in [1..Len(m.graph) -> {"none", "Gaussian", "Other"}] :
              LET st == Fitted(ks, [qobj |-> m.qobj, qslot |-> m.qslot, err |-> FALSE,
                                 defq |-> FALSE, log |-> <<>>, ret |-> None], 1)
              IN qobj = st.qobj /\ qslot = st.qslot
        /\ val = Nones(Len(m.graph))
        /\ mark = Nones(Len(m.graph))
        /\ vseed = Nones(Len(m.graph))
        /\ rng = NoRng
        /\ last = [op |-> "init", ok |-> TRUE]

\* The caller attaches a posterior of the node's own shape, or observes a
\* value of it.
Fitting ==
    \/ \E n \in 1..Len(graph) : AttachQ(n, NewQ("Gaussian", graph[n].output_shape))
    \/ \E n \in 1..Len(graph) : Observe(n, graph[n].output_shape)

Infer == Forward \/ Fitting \/ Inference

\* Sampling with the default seed, fitting and the inference operations, on
\* the inference examples with posteriors attached.
SpecInfer == InitFitted /\ [][Infer]_vars

\* The nodes a constructor call may be given: none, flat ones, or those of
\* an example.
Flats ==
    LET m1 == AddFlat(Empty, <<MaxDim, 1>>, "float32", TRUE)
        m2 == AddFlat(m1, <<1, MaxDim>>, "float32", TRUE)
        m3 == AddFlat(m2, <<1, 1>>, "float32", FALSE)
        m4 == AddFlat(m3, <<MaxDim>>, "float32", TRUE)
    IN AddFlat(m4, <<1, 1>>, "float64", TRUE)

Pools == {Empty, Flats, Diamond(<<"A", "B", "std">>)}

InitBuild == \E m \in Pools : m.ok /\ Loaded(m)

\* One constructor call on the nodes given: of a flat node, or of a node of
\* a stochastic class with its inputs in the order its class declares.
BuildOnce ==
    \/ /\ last.op = "init"
       /\ \E v \in FlatValues : NewFlat(v.shape, v.dtype, v.fixed)
    \/ /\ last.op = "init"
       /\ \E cls \in Classes \ {"Flat"} :
            \E kw \in Keywords(graph, cls), e \in Explicit :
               NewNode(cls, kw, e.os, e.dt, None,
                       DeclaredOrder(cls, {nm \in DOMAIN kw : kw[nm].t # "none"}))

SpecBuild == InitBuild /\ [][BuildOnce]_vars

\* ------------------------------------------------------------------ claims

C2_AttachOnce ==
    [][/\ \A n \in 1..Len(graph) :
             qslot[n] # None =>
                /\ qslot'[n] = qslot[n]
                /\ qobj'[The(qslot[n])].kind = qobj[The(qslot[n])].kind
                /\ qobj'[The(qslot[n])].output_shape
                     = qobj[The(qslot[n])].output_shape
       /\ last'.op \in {"attach_q", "observe"} =>
             LET n == last'.n
                 q == IF last'.op = "observe" THEN ObservedQ(last'.shape)
                      ELSE last'.q
             IN /\ last'.ok <=> (qslot[n] = None
                                 /\ q.output_shape = graph[n].output_shape)
                /\ last'.ok => /\ qslot'[n] = Some(Len(qobj) + 1)
                               /\ qobj' = Append(qobj, q)
                /\ ~last'.ok => qslot' = qslot /\ qobj' = qobj
       /\ (last'.op = "q_distribution" /\ qslot[last'.n] # None) =>
             /\ last'.ok
             /\ last'.ret = qslot[last'.n]
             /\ ~last'.defq]_vars

\* q_distribution returned a posterior that attach_q had attached.
C2_Witness ==
    /\ last.op = "q_distribution"
    /\ last.ok
    /\ ~last.defq
    /\ qobj[The(last.ret)].kind = "Gaussian"

\* C3: the ancestors of every node are the node itself and the ancestors of
\* its input nodes, constants included, so a node without inputs has itself
\* only; and no sample, attach_q, observe, elbo_term or init_q_true call
\* changes the ancestors of a node.
C3_AncestorClosure ==
    /\ [](\A n \in 1..Len(graph) :
             graph[n].ancestors
               = {n} \cup UNION {graph[p].ancestors :
                                   p \in Range(graph[n].input_nodes)})
    /\ [][/\ Len(graph') = Len(graph)
          /\ \A n \in 1..Len(graph) : graph'[n].ancestors = graph[n].ancestors]_vars

\* After an operation on it, a node has an ancestor that is not one of its
\* inputs, and another node has a constant as an ancestor.
C3_Witness ==
    /\ last.op \in {"sample", "attach_q", "observe", "elbo_term", "init_q_true"}
    /\ \E n \in 1..Len(graph) :
          /\ last.n = n
          /\ \E a \in graph[n].ancestors :
                a # n /\ a \notin Range(graph[n].input_nodes)

\* C4 as stated: a constructor call that has a keyword for every declared
\* input (a node, None or a raw value) succeeds; output_shape and dtype are
\* given, so that nothing has to be inferred.
C4_Original ==
    (/\ last.op = "new"
     /\ last.cls # "Flat"
     /\ DOMAIN last.kw = Range(inputs(last.cls))
     /\ last.os # None
     /\ last.dt # None) => last.ok

\* C5 as stated: no matrix product and no latent-feature node exists whose
\* matrix inputs differ in their inner dimensions.
C5_Original ==
    \A n \in 1..Len(graph) :
        LET nd == graph[n]
            sh(nm) == graph[nd.input_nodes[nm]].output_shape
        IN /\ (/\ nd.cls = "NGMP"
               /\ {"A", "B"} \subseteq DOMAIN nd.input_nodes
               /\ Len(sh("A")) = 2 /\ Len(sh("B")) = 2) => sh("A")[2] = sh("B")[2]
           /\ (/\ nd.cls = "NLF"
               /\ {"B", "G"} \subseteq DOMAIN nd.input_nodes
               /\ Len(sh("B")) = 2 /\ Len(sh("G")) = 2) => sh("B")[2] = sh("G")[1]

\* C5, amended: a matrix product or latent-feature node constructed without
\* an output_shape has all its inputs, matrices whose inner dimensions
\* agree, and the output_shape (N, M); no GMMClustering node is constructed
\* without an output_shape.
C5_InferredShape ==
    \A n \in 1..Len(graph) :
        LET nd == graph[n]
            sh(nm) == graph[nd.input_nodes[nm]].output_shape
        IN nd.inferred =>
              /\ nd.cls # "GMM"
              /\ nd.cls = "NGMP" =>
                    /\ DOMAIN nd.input_nodes = {"A", "B", "std"}
                    /\ Len(sh("A")) = 2 /\ Len(sh("B")) = 2
                    /\ sh("A")[2] = sh("B")[2]
                    /\ nd.output_shape = <<sh("A")[1], sh("B")[1]>>
              /\ nd.cls = "NLF" =>
                    /\ DOMAIN nd.input_nodes = {"B", "G", "std"}
                    /\ Len(sh("B")) = 2 /\ Len(sh("G")) = 2
                    /\ sh("B")[2] = sh("G")[1]
                    /\ nd.output_shape = <<sh("B")[1], sh("G")[2]>>

\* A matrix product was constructed without an output_shape, of inputs with
\* N # M.
C5_Witness ==
    /\ last.op = "new"
    /\ last.ok
    /\ last.os = None
    /\ last.cls = "NGMP"
    /\ graph[last.id].output_shape[1] # graph[last.id].output_shape[2]

\* C6 as stated: with a minibatch_scale_factor c, both components of
\* elbo_term are c times those that the same node returns for the same
\* posteriors without a scale factor.
C6_Original ==
    (last.op = "elbo_term" /\ last.ok /\ graph[last.n].msf # None) =>
        LET nd == graph[last.n]
            c == The(nd.msf)
            u == elbo_term(nd.cls, nd.K, None, last.lp, last.ent)
        IN last.out.lp = Times(u.lp, c) /\ last.out.ent = Times(u.ent, c)

\* C6, amended: with a minibatch_scale_factor c, the entropy is c times the
\* unscaled one, and the expected log probability is c times the unscaled
\* one without its symmetry correction, plus the symmetry correction, which
\* is not scaled; the classes without a correction (flat, cumulative sum,
\* multiplicative noise) return c times the unscaled expected log probability.
C6_ScaledTerms ==
    (last.op = "elbo_term" /\ last.ok /\ graph[last.n].msf # None) =>
        LET nd == graph[last.n]
            c == The(nd.msf)
            u == elbo_term(nd.cls, nd.K, None, last.lp, last.ent)
            corr == u.lp.exp \div last.lp.exp
        IN /\ last.out.ent = Times(u.ent, c)
           /\ u.lp = PlusLog(last.lp, corr)
           /\ last.out.lp = PlusLog(Times(last.lp, c), corr)
           /\ nd.cls \in {"Flat", "NCS", "MGN"} => last.out.lp = Times(u.lp, c)

\* elbo_term of a matrix product with a scale factor returned.
C6_Witness ==
    /\ last.op = "elbo_term"
    /\ last.ok
    /\ graph[last.n].cls = "NGMP"
    /\ graph[last.n].msf # None

\* C7 as stated: no failure of init_q_true reaches the caller.
C7_Original == last.op = "init_q_true" => last.ok

\* C7, amended: init_q_true returns normally exactly when the node and all
\* its ancestors have a posterior; it calls initialize_to_value only on
\* posteriors of the node and its ancestors that are not observed, with the
\* node's cached sample, and a posterior that cannot be initialized does
\* not keep the others from being initialized: when the call returns
\* normally, every posterior that is not observed has been called, and
\* those that can be initialized hold the node's cached sample.
C7_BestEffort ==
    last.op = "init_q_true" =>
        LET anc == graph[last.n].ancestors
            logged == {last.log[i].n : i \in DOMAIN last.log}
        IN /\ last.ok <=> \A a \in anc : qslot[a] # None
           /\ \A i \in DOMAIN last.log :
                 LET e == last.log[i]
                 IN /\ e.n \in anc
                    /\ qslot[e.n] = Some(e.q)
                    /\ qobj[e.q].kind # "Observed"
                    /\ e.v = val[e.n]
                    /\ e.ok <=> qobj[e.q].kind = "Gaussian"
                    /\ e.ok => qobj[e.q].init = Some(val[e.n])
           /\ last.ok =>
                 logged = {a \in anc : qobj[The(qslot[a])].kind # "Observed"}

\* A posterior could not be initialized, and one of a later node was
\* initialized to a sampled value in the same call.
C7_Witness ==
    /\ last.op = "init_q_true"
    /\ last.ok
    /\ \E i, j \in DOMAIN last.log :
          i < j /\ ~last.log[i].ok /\ last.log[j].ok /\ last.log[j].v # None

\* C8 as stated: when sample(seed) returns, the seed marker of every
\* ancestor of the node is seed.
C8_Original ==
    (last.op = "sample" /\ last.ok) =>
        \A a \in graph[last.n].ancestors : mark[a] = Some(last.seed)

\* C8, amended: when sample(seed) returns after a miss, the seed marker of
\* the node and of each of its input nodes is seed; a call that hits
\* samples nobody; and within one call a node's _sample runs at most once,
\* only for the node and its ancestors, and after the _sample of each of its
\* input nodes that runs in the call.
C8_ParentForcing ==
    last.op = "sample" =>
        LET parents(m) == Range(graph[m].input_nodes)
            log == last.log
        IN /\ (last.ok /\ ~last.hit) =>
                 \A p \in parents(last.n) \cup {last.n} : mark[p] = Some(last.seed)
           /\ last.hit => log = <<>>
           /\ \A i \in DOMAIN log : log[i].n \in graph[last.n].ancestors
           /\ \A i, j \in DOMAIN log :
                 /\ log[i].n = log[j].n => i = j
                 /\ log[j].n \in parents(log[i].n) => j < i

\* A call that missed sampled an input node as well and returned while an
\* ancestor holds a sample for another seed.
C8_Witness ==
    /\ last.op = "sample"
    /\ last.ok
    /\ ~last.hit
    /\ Len(last.log) >= 2
    /\ \E a \in graph[last.n].ancestors : mark[a] # Some(last.seed)

\* C9 as stated: the value sample(seed) returns is the one that the seed
\* and the graph determine: every node's _sample on freshly drawn inputs,
\* from a generator that was seeded with the node's local seed.
C9_Original ==
    (last.op = "sample" /\ last.ok) => last.ret = Ideal(last.n, last.seed)

\* C10 as stated: a node whose seed marker is s holds a cached value, and
\* it is the value its _sample returned for the seed s.
C10_Original ==
    \A n \in 1..Len(graph) :
        mark[n] # None => val[n] # None /\ vseed[n] = mark[n]

====
